---------------------------- MODULE Spec2Model ----------------------------
(***************************************************************************)
(* Fitness Tracker API (backend/server.py): the account store, the bearer  *)
(* tokens, the catalogs and the per-account logs, as a state machine.      *)
(*                                                                         *)
(* Time is counted in whole hours of the UTC wall clock.  Amounts that the *)
(* code rounds to 2 decimals are kept in hundredths (24750 = 247.50).      *)
(***************************************************************************)
EXTENDS Integers, Sequences, FiniteSets, TLC

VARIABLES
    users,            \* db.users, in insertion order
    food_items,       \* db.food_items
    exercises,        \* db.exercises
    meal_entries,     \* db.meal_entries
    workout_entries,  \* db.workout_entries
    goals,            \* db.goals
    now,              \* the UTC wall clock, in hours
    tz,               \* the server's local time zone, as hours ahead of UTC
    reg,              \* the register requests being handled, one per task
    issued,           \* every token create_jwt_token has produced, for whom and when
    dash,             \* the dashboard request being handled
    resp              \* the response to the last request other than register

vars == <<users, food_items, exercises, meal_entries, workout_entries, goals,
          now, tz, reg, issued, dash, resp>>

store == <<users, food_items, exercises, meal_entries, workout_entries, goals>>

-----------------------------------------------------------------------------
(* Bounds of the model *)

MaxRegs == 2          \* register requests handled concurrently
MaxTicks == 3         \* how often the clock advances
MaxFoods == 2         \* food items in the catalog
MaxMeals == 2         \* meal entries logged
MaxWorkouts == 1      \* workout entries logged
MaxGoals == 1         \* goals created

(* Program constants *)

TOKEN_HOURS == 24     \* timedelta(hours=24)
DAY_HOURS == 24       \* timedelta(days=1)
LIST_LIMIT == 1000    \* to_list(1000)
JWT_SECRET == "your-secret-key-here"

\* The clock advances by half a day at a time
TickHours == DAY_HOURS \div 2

Tasks == 1..MaxRegs
UserIds == 1..MaxRegs

Usernames == {"ann", "bob"}
Emails == {"a@x.io", "b@x.io"}
Passwords == {"pw1", "pw2"}
Salts == {"s1", "s2"}
Heights == {0, 175}
Weight == 70

\* The local offsets a server can run under: UTC, and UTC+12.
TZOffsets == {0, 12}

\* UserCreate, cut to the fields the handlers below read
RegisterRequests ==
    [username : Usernames, email : Emails, password : Passwords, height : Heights]

-----------------------------------------------------------------------------
(* Utility functions *)

\* bcrypt.hashpw(password, gensalt()): the salt is kept in the hash, the
\* digest is a function of salt and password
hash_password(password, salt) == [salt |-> salt, digest |-> <<salt, password>>]

\* bcrypt.checkpw: hashes the password again with the salt of the hash
verify_password(password, hashed) ==
    hash_password(password, hashed.salt).digest = hashed.digest

\* HS256 over the payload
Sign(key, user_id, exp) == <<key, user_id, exp>>

create_jwt_token_12h(user_id, t) ==
    [user_id |-> user_id, exp |-> t + 12, sig |-> Sign(JWT_SECRET, user_id, t + 12)]
create_jwt_token(user_id, t) ==
    [user_id |-> user_id,
     exp     |-> t + TOKEN_HOURS,
     sig     |-> Sign(JWT_SECRET, user_id, t + TOKEN_HOURS)]

\* A request without an Authorization header
NoCredentials == [user_id |-> 0, exp |-> 0, sig |-> <<"", 0, 0>>]

\* verify_jwt_token: jwt.decode checks the signature, then the expiry
verify_jwt_token_unsigned(token, t) ==
    IF token.sig[1] # JWT_SECRET
    THEN [status |-> 401, detail |-> "Invalid token", user_id |-> 0]
    ELSE IF token.exp <= t
    THEN [status |-> 401, detail |-> "Token expired", user_id |-> 0]
    ELSE [status |-> 200, detail |-> "", user_id |-> token.user_id]
verify_jwt_token(token, t) ==
    IF token.sig # Sign(JWT_SECRET, token.user_id, token.exp)
    THEN [status |-> 401, detail |-> "Invalid token", user_id |-> 0]
    ELSE IF token.exp <= t
    THEN [status |-> 401, detail |-> "Token expired", user_id |-> 0]
    ELSE [status |-> 200, detail |-> "", user_id |-> token.user_id]

\* security = HTTPBearer(): a request without credentials is refused before
\* get_current_user runs, with the status of the installed FastAPI
\* (403 "Not authenticated" up to 0.121, 401 from 0.122)
HTTPBearerStatus == {401, 403}

\* Depends(get_current_user): the outcomes of authenticating a request
get_current_user(token, t) ==
    IF token = NoCredentials
    THEN {[status |-> s, detail |-> "Not authenticated", user_id |-> 0] :
              s \in HTTPBearerStatus}
    ELSE {verify_jwt_token(token, t)}

\* round(n / d, 2) in hundredths, ties to even (d > 0)
RoundHalfEven(n, d) ==
    LET q == n \div d
        r == n % d
    IN  IF 2 * r > d \/ (2 * r = d /\ q % 2 = 1) THEN q + 1 ELSE q

Round2(n, d) == RoundHalfEven(100 * n, d)

\* calculate_bmi: round(weight / ((height / 100) ** 2), 2); a height of 0
\* raises ZeroDivisionError
calculate_bmi(weight, height) ==
    IF height = 0
    THEN [ok |-> FALSE, value |-> 0]
    ELSE [ok |-> TRUE, value |-> Round2(weight * 10000, height * height)]

\* ActivityLevel, and a value that is none of its members
ActivityLevels ==
    {"sedentary", "lightly_active", "moderately_active", "very_active",
     "extremely_active"}

UnknownLevel == "unknown"

\* activity_multiplier.get(user.activity_level, 1.2), in thousandths
activity_multiplier_default(level) == 1200
activity_multiplier(level) ==
    CASE level = "sedentary"         -> 1200
      [] level = "lightly_active"    -> 1375
      [] level = "moderately_active" -> 1550
      [] level = "very_active"       -> 1725
      [] level = "extremely_active"  -> 1900
      [] OTHER                       -> 1200

\* int(n / d): the quotient cut toward zero (d > 0)
Trunc(n, d) == IF n >= 0 THEN n \div d ELSE -((-n) \div d)

\* calculate_daily_calories: bmr = 10 * weight + 6.25 * height - 5 * age + 5
\* (here in hundredths), times the multiplier, cut to an integer; 2000 when
\* age, weight or height is falsy
calculate_daily_calories(age, weight, height, level) ==
    IF age # 0 /\ weight # 0 /\ height # 0
    THEN LET bmr == 1000 * weight + 625 * height - 500 * age + 500
         IN  Trunc(bmr * activity_multiplier(level), 100000)
    ELSE 2000

-----------------------------------------------------------------------------
(* The state after start-up: the seeded catalogs, no account, no entry *)

NoRequest == [username |-> "", email |-> "", password |-> "", height |-> 0]

Idle == [pc |-> "idle", req |-> NoRequest, status |-> 0, token |-> NoCredentials]

NoResponse ==
    [op |-> "", status |-> 0, detail |-> "", user_id |-> 0, token |-> NoCredentials]

NoDashboard == [pc |-> "idle", user_id |-> 0, today |-> 0]

\* create_seed_data: the first sample food and the first sample exercise
\* (densities and rates in tenths: 1650 = 165.0 kcal per 100 g)
SeedFoods ==
    <<[id |-> 1, name |-> "Chicken Breast", calories_per_100g |-> 1650,
       protein_per_100g |-> 310, carbs_per_100g |-> 0, fat_per_100g |-> 36]>>

SeedExercises == <<[id |-> 1, name |-> "Push-ups", calories_per_minute |-> 80]>>

Init ==
    /\ users = <<>>
    /\ food_items = SeedFoods
    /\ exercises = SeedExercises
    /\ meal_entries = <<>>
    /\ workout_entries = <<>>
    /\ goals = <<>>
    /\ now = 0
    /\ tz \in TZOffsets
    /\ reg = [p \in Tasks |-> Idle]
    /\ issued = {}
    /\ dash = NoDashboard
    /\ resp = NoResponse

-----------------------------------------------------------------------------
(* Tokens a client can present *)

IssuedTokens == {i.token : i \in issued}

\* What a caller without the secret can build: a payload of its choice (any
\* account, expiring a day from now or when a token it was given expires),
\* signed with a key of its own or carrying the signature of such a token
Forgeable ==
    UNION {{[user_id |-> u, exp |-> e, sig |-> s] :
                s \in {i.sig : i \in IssuedTokens}
                      \cup {Sign("attacker-key", u, e)}} :
           u \in UserIds,
           e \in {now + TOKEN_HOURS} \cup {i.exp : i \in IssuedTokens}}

Presentable == {NoCredentials} \cup IssuedTokens \cup Forgeable

-----------------------------------------------------------------------------
(* Authentication routes *)

\* db.users.find_one({"$or": [{"username": ...}, {"email": ...}]})
find_existing_by_username(req) ==
    \E i \in 1..Len(users) : users[i].username = req.username
find_existing(req) ==
    \E i \in 1..Len(users) :
        users[i].username = req.username \/ users[i].email = req.email

\* register_user up to its first await: the store answers the find_one
RegisterFind(p, req) ==
    /\ reg[p].pc = "idle"
    /\ reg' = [reg EXCEPT ![p] =
                 IF find_existing(req)
                 THEN [pc |-> "done", req |-> req, status |-> 400,
                       token |-> NoCredentials]
                 ELSE [pc |-> "checked", req |-> req, status |-> 0,
                       token |-> NoCredentials]]
    /\ UNCHANGED <<store, now, tz, issued, dash, resp>>

\* register_user from the insert_one to the response: the account is
\* stored, the token is made, and the profile is built with its bmi
\* (by: the request that stored the document, kept for the claims)
RegisterInsert(p, salt) ==
    /\ reg[p].pc = "checked"
    /\ LET req   == reg[p].req
           id    == Len(users) + 1
           doc   == [id |-> id, username |-> req.username, email |-> req.email,
                     password_hash |-> hash_password(req.password, salt),
                     height |-> req.height, by |-> p]
           token == create_jwt_token(id, now)
           bmi   == calculate_bmi(Weight, req.height)
       IN  /\ users' = Append(users, doc)
           /\ issued' = issued \cup {[token |-> token, user_id |-> id, at |-> now]}
           /\ reg' = [reg EXCEPT ![p] =
                        [pc |-> "done", req |-> req,
                         status |-> IF bmi.ok THEN 200 ELSE 500,
                         token |-> IF bmi.ok THEN token ELSE NoCredentials]]
    /\ UNCHANGED <<food_items, exercises, meal_entries, workout_entries, goals,
                   now, tz, dash, resp>>

\* db.users.find_one({"username": ...}): the first match in store order
find_by_username(username) ==
    LET S == {i \in 1..Len(users) : users[i].username = username}
    IN  IF S = {} THEN 0 ELSE CHOOSE i \in S : \A j \in S : i <= j

find_by_id(id) ==
    LET S == {i \in 1..Len(users) : users[i].id = id}
    IN  IF S = {} THEN 0 ELSE CHOOSE i \in S : \A j \in S : i <= j

\* login_user
LoginUser(username, password) ==
    LET i == find_by_username(username)
    IN  /\ IF i = 0
           THEN /\ resp' = [op |-> "login", status |-> 401,
                            detail |-> "Invalid credentials", user_id |-> 0,
                            token |-> NoCredentials]
                /\ UNCHANGED issued
           ELSE IF ~verify_password(password, users[i].password_hash)
           THEN /\ resp' = [op |-> "login", status |-> 401,
                            detail |-> "Invalid credentials", user_id |-> 0,
                            token |-> NoCredentials]
                /\ UNCHANGED issued
           ELSE LET token == create_jwt_token(users[i].id, now)
                    bmi   == calculate_bmi(Weight, users[i].height)
                IN  /\ issued' = issued \cup {[token |-> token, user_id |-> users[i].id, at |-> now]}
                    /\ resp' = IF bmi.ok
                               THEN [op |-> "login", status |-> 200, detail |-> "",
                                     user_id |-> users[i].id, token |-> token]
                               ELSE [op |-> "login", status |-> 500,
                                     detail |-> "ZeroDivisionError", user_id |-> 0,
                                     token |-> NoCredentials]
        /\ UNCHANGED <<store, now, tz, reg, dash>>

Refused(op, auth) ==
    [op |-> op, status |-> auth.status, detail |-> auth.detail, user_id |-> 0,
     token |-> NoCredentials]

\* get_user_profile
GetUserProfile(token) ==
    \E auth \in get_current_user(token, now) :
        /\ IF auth.status # 200
           THEN resp' = Refused("profile", auth)
           ELSE LET i == find_by_id(auth.user_id)
                IN  IF i = 0
                    THEN resp' = [op |-> "profile", status |-> 404,
                                  detail |-> "User not found", user_id |-> 0,
                                  token |-> NoCredentials]
                    ELSE IF ~calculate_bmi(Weight, users[i].height).ok
                    THEN resp' = [op |-> "profile", status |-> 500,
                                  detail |-> "ZeroDivisionError", user_id |-> 0,
                                  token |-> NoCredentials]
                    ELSE resp' = [op |-> "profile", status |-> 200, detail |-> "",
                                  user_id |-> users[i].id, token |-> NoCredentials]
        /\ UNCHANGED <<store, now, tz, reg, issued, dash>>

\* The wall clock advances
Tick ==
    /\ now < MaxTicks * TickHours
    /\ now' = now + TickHours
    /\ UNCHANGED <<store, tz, reg, issued, dash, resp>>

-----------------------------------------------------------------------------
(* Day windows *)

\* The date query parameter: absent, or an ISO string naming a day and,
\* possibly, a time of day
NoDate == [given |-> FALSE, day |-> 0, hour |-> 0]

DateParams == {NoDate} \cup [given : {TRUE}, day : {0}, hour : {0, 12}]

\* datetime.fromisoformat(date)
fromisoformat(date) == date.day * DAY_HOURS + date.hour

\* datetime.now().replace(hour=0, minute=0, second=0, microsecond=0): the
\* server's local midnight, as a naive datetime
today_start(t) == ((t + tz) \div DAY_HOURS) * DAY_HOURS

\* start_date of get_meal_log, get_daily_nutrition_summary, get_workout_log
start_date(date, t) == IF date.given THEN fromisoformat(date) ELSE today_start(t)

\* {"$gte": start_date, "$lt": end_date}, end_date = start_date + 1 day
in_window_closed(t, start) == start <= t /\ t <= start + DAY_HOURS
in_window(t, start) == start <= t /\ t < start + DAY_HOURS

-----------------------------------------------------------------------------
(* Queries *)

\* cursor.to_list(1000): at most the first 1000 documents
to_list(sq) == IF Len(sq) <= LIST_LIMIT THEN sq ELSE SubSeq(sq, 1, LIST_LIMIT)

\* sum(...) and $sum: the sum of f over the documents lo..hi of sq (added up
\* by halves, which keeps the evaluation of a thousand documents shallow)
RECURSIVE SumFrom(_, _, _, _)
SumFrom(f, sq, lo, hi) ==
    IF lo > hi THEN 0
    ELSE IF lo = hi THEN f[sq[lo]]
    ELSE LET mid == (lo + hi) \div 2
         IN  SumFrom(f, sq, lo, mid) + SumFrom(f, sq, mid + 1, hi)

SumSeq(f, sq) == SumFrom(f, sq, 1, Len(sq))

Field(sq, name) == [e \in {sq[i] : i \in 1..Len(sq)} |-> e[name]]

\* db.meal_entries.find({"user_id": ..., "logged_at": {...}})
match_meals_any_user(user_id, start) ==
    SelectSeq(meal_entries, LAMBDA e : in_window(e.logged_at, start))
match_meals(user_id, start) ==
    SelectSeq(meal_entries,
              LAMBDA e : e.user_id = user_id /\ in_window(e.logged_at, start))

find_meals(user_id, start) == to_list(match_meals(user_id, start))

\* db.workout_entries.find({"user_id": ..., "completed_at": {...}})
find_workouts(user_id, start) ==
    to_list(SelectSeq(workout_entries,
                      LAMBDA e : e.user_id = user_id
                                 /\ in_window(e.completed_at, start)))

\* db.goals.find({"user_id": ...})
find_goals(user_id) == to_list(SelectSeq(goals, LAMBDA g : g.user_id = user_id))

\* the $match / $group pipeline of get_daily_nutrition_summary
nutrition_summary_ungrouped(user_id, start) ==
    LET m == match_meals(user_id, start)
    IN  IF m = <<>>
        THEN [total_calories |-> 0, total_protein |-> 0, total_carbs |-> 0,
              total_fat |-> 0, meal_count |-> 0]
        ELSE [total_calories |-> Head(m).calories,
              total_protein  |-> Head(m).protein,
              total_carbs    |-> Head(m).carbs,
              total_fat      |-> Head(m).fat,
              meal_count     |-> 1]
nutrition_summary(user_id, start) ==
    LET m == match_meals(user_id, start)
    IN  IF m = <<>>
        THEN [total_calories |-> 0, total_protein |-> 0, total_carbs |-> 0,
              total_fat |-> 0, meal_count |-> 0]
        ELSE [total_calories |-> SumSeq(Field(m, "calories"), m),
              total_protein  |-> SumSeq(Field(m, "protein"), m),
              total_carbs    |-> SumSeq(Field(m, "carbs"), m),
              total_fat      |-> SumSeq(Field(m, "fat"), m),
              meal_count     |-> Len(m)]

\* get_dashboard_stats: the workouts of [today, tomorrow), the summary of the
\* window get_daily_nutrition_summary computes for itself, the open goals
dashboard_stats(user_id, today, summary_start) ==
    LET w == find_workouts(user_id, today)
    IN  [nutrition |-> nutrition_summary(user_id, summary_start),
         workouts  |-> [total_calories_burned |-> SumSeq(Field(w, "calories_burned"), w),
                        total_workout_time    |-> SumSeq(Field(w, "duration"), w),
                        workout_count         |-> Len(w)],
         active_goals_count |->
             Len(to_list(SelectSeq(goals, LAMBDA g : g.user_id = user_id
                                                      /\ ~g.is_achieved)))]

-----------------------------------------------------------------------------
(* Food, workout and goal routes *)

\* FoodItemCreate bodies a caller sends (densities in tenths)
NewFoods ==
    {[name |-> "Test Food", calories_per_100g |-> 1000, protein_per_100g |-> 100,
      carbs_per_100g |-> 100, fat_per_100g |-> 100]}

FoodIds == 1..(MaxFoods + 1)
ExerciseIds == {1, 2}
Quantities == {100}
Durations == {30}

\* A response; request keeps the id the request named, for the claims
Answer(op, status, detail, user_id, body) ==
    [op |-> op, request |-> 0, status |-> status, detail |-> detail,
     user_id |-> user_id, token |-> NoCredentials, body |-> body]

AnswerTo(id, op, status, detail, user_id, body) ==
    [Answer(op, status, detail, user_id, body) EXCEPT !.request = id]

Denied(op, auth) == Answer(op, auth.status, auth.detail, 0, <<>>)

\* db.food_items.find_one({"id": ...})
find_food_first(id) == IF food_items = <<>> THEN 0 ELSE 1
find_food(id) ==
    LET S == {i \in 1..Len(food_items) : food_items[i].id = id}
    IN  IF S = {} THEN 0 ELSE CHOOSE i \in S : \A j \in S : i <= j

\* db.exercises.find_one({"id": ...})
find_exercise(id) ==
    LET S == {i \in 1..Len(exercises) : exercises[i].id = id}
    IN  IF S = {} THEN 0 ELSE CHOOSE i \in S : \A j \in S : i <= j

\* round(density * (quantity / 100), 2), in hundredths
scale_nutrition_per_gram(density, quantity) == Round2(density * quantity, 10)
scale_nutrition(density, quantity) == Round2(density * quantity, 1000)

\* round(calories_per_minute * duration, 2), in hundredths
calorie_burn(rate, duration) == Round2(rate * duration, 10)

\* create_food_item
CreateFoodItem(token, food) ==
    /\ Len(food_items) < MaxFoods
    /\ \E auth \in get_current_user(token, now) :
        IF auth.status # 200
        THEN /\ resp' = Denied("create_food_item", auth)
             /\ UNCHANGED food_items
        ELSE LET item == [id |-> Len(food_items) + 1, name |-> food.name,
                          calories_per_100g |-> food.calories_per_100g,
                          protein_per_100g |-> food.protein_per_100g,
                          carbs_per_100g |-> food.carbs_per_100g,
                          fat_per_100g |-> food.fat_per_100g]
             IN  /\ food_items' = Append(food_items, item)
                 /\ resp' = Answer("create_food_item", 200, "", auth.user_id, item)
    /\ UNCHANGED <<users, exercises, meal_entries, workout_entries, goals,
                   now, tz, reg, issued, dash>>

\* log_meal
LogMeal(token, food_item_id, quantity) ==
    /\ Len(meal_entries) < MaxMeals
    /\ \E auth \in get_current_user(token, now) :
        IF auth.status # 200
        THEN /\ resp' = Denied("log_meal", auth)
             /\ UNCHANGED meal_entries
        ELSE LET i == find_food(food_item_id)
             IN  IF i = 0
                 THEN /\ resp' = AnswerTo(food_item_id, "log_meal", 404,
                                          "Food item not found", auth.user_id, <<>>)
                      /\ UNCHANGED meal_entries
                 ELSE LET f == food_items[i]
                          entry ==
                              [user_id |-> auth.user_id,
                               food_item_id |-> food_item_id,
                               quantity |-> quantity,
                               calories |-> scale_nutrition(f.calories_per_100g, quantity),
                               protein |-> scale_nutrition(f.protein_per_100g, quantity),
                               carbs |-> scale_nutrition(f.carbs_per_100g, quantity),
                               fat |-> scale_nutrition(f.fat_per_100g, quantity),
                               logged_at |-> now]
                      IN  /\ meal_entries' = Append(meal_entries, entry)
                          /\ resp' = AnswerTo(food_item_id, "log_meal", 200, "",
                                               auth.user_id, entry)
    /\ UNCHANGED <<users, food_items, exercises, workout_entries, goals,
                   now, tz, reg, issued, dash>>

\* log_workout
LogWorkout(token, exercise_id, duration) ==
    /\ \E auth \in get_current_user(token, now) :
        IF auth.status # 200
        THEN /\ resp' = Denied("log_workout", auth)
             /\ UNCHANGED workout_entries
        ELSE LET i == find_exercise(exercise_id)
             IN  IF i = 0
                 THEN /\ resp' = AnswerTo(exercise_id, "log_workout", 404,
                                          "Exercise not found", auth.user_id, <<>>)
                      /\ UNCHANGED workout_entries
                 ELSE LET entry ==
                              [user_id |-> auth.user_id,
                               exercise_id |-> exercise_id,
                               duration |-> duration,
                               calories_burned |->
                                   calorie_burn(exercises[i].calories_per_minute,
                                                duration),
                               completed_at |-> now]
                      IN  /\ workout_entries' = Append(workout_entries, entry)
                          /\ resp' = AnswerTo(exercise_id, "log_workout", 200, "",
                                               auth.user_id, entry)
    /\ UNCHANGED <<users, food_items, exercises, meal_entries, goals,
                   now, tz, reg, issued, dash>>

\* create_goal
CreateGoal(token) ==
    /\ Len(goals) < MaxGoals
    /\ \E auth \in get_current_user(token, now) :
        IF auth.status # 200
        THEN /\ resp' = Denied("create_goal", auth)
             /\ UNCHANGED goals
        ELSE LET goal == [user_id |-> auth.user_id, is_achieved |-> FALSE]
             IN  /\ goals' = Append(goals, goal)
                 /\ resp' = Answer("create_goal", 200, "", auth.user_id, goal)
    /\ UNCHANGED <<users, food_items, exercises, meal_entries, workout_entries,
                   now, tz, reg, issued, dash>>

\* A handler that only reads: op names it, result[user_id] is its body
ReadOnly(op, token, result) ==
    /\ \E auth \in get_current_user(token, now) :
        resp' = IF auth.status # 200
                THEN Denied(op, auth)
                ELSE Answer(op, 200, "", auth.user_id, result[auth.user_id])
    /\ UNCHANGED <<store, now, tz, reg, issued, dash>>

\* get_meal_log
GetMealLog(token, date) ==
    ReadOnly("get_meal_log", token,
             [u \in UserIds |-> find_meals(u, start_date(date, now))])

\* get_daily_nutrition_summary
GetDailyNutritionSummary(token, date) ==
    ReadOnly("get_daily_nutrition_summary", token,
             [u \in UserIds |-> nutrition_summary(u, start_date(date, now))])

\* get_workout_log
GetWorkoutLog(token, date) ==
    ReadOnly("get_workout_log", token,
             [u \in UserIds |-> find_workouts(u, start_date(date, now))])

\* get_user_goals
GetUserGoals(token) ==
    ReadOnly("get_user_goals", token, [u \in UserIds |-> find_goals(u)])

\* get_dashboard_stats up to its call of get_daily_nutrition_summary: the
\* request is authenticated and today is read off the clock
DashboardToday(token) ==
    /\ dash.pc = "idle"
    /\ \E auth \in get_current_user(token, now) :
        IF auth.status # 200
        THEN /\ resp' = Denied("get_dashboard_stats", auth)
             /\ UNCHANGED dash
        ELSE /\ dash' = [pc |-> "today", user_id |-> auth.user_id,
                         today |-> today_start(now)]
             /\ UNCHANGED resp
    /\ UNCHANGED <<store, now, tz, reg, issued>>

\* get_dashboard_stats from there on: get_daily_nutrition_summary reads the
\* clock for its own window, then the workouts of [today, tomorrow) and the
\* open goals are fetched
DashboardStats ==
    /\ dash.pc = "today"
    /\ resp' = Answer("get_dashboard_stats", 200, "", dash.user_id,
                      dashboard_stats(dash.user_id, dash.today,
                                      start_date(NoDate, now)))
    /\ dash' = NoDashboard
    /\ UNCHANGED <<store, now, tz, reg, issued>>

-----------------------------------------------------------------------------
(* Specifications *)

Register == \E p \in Tasks :
    \/ \E req \in RegisterRequests : RegisterFind(p, req)
    \/ \E salt \in Salts : RegisterInsert(p, salt)

Login == \E u \in Usernames, pw \in Passwords : LoginUser(u, pw)

Profile == \E token \in Presentable : GetUserProfile(token)

\* Registration under every interleaving of its two steps, and login, at one
\* instant of the clock
NextRegister == Register \/ Login \/ Profile

SpecRegister == Init /\ [][NextRegister]_vars

\* Two people who sign up with names and addresses of their own
Ann == [username |-> "ann", email |-> "a@x.io", password |-> "pw1", height |-> 175]
Bob == [username |-> "bob", email |-> "b@x.io", password |-> "pw2", height |-> 175]

SignUp == \E p \in Tasks :
    \/ \E req \in {Ann, Bob} : RegisterFind(p, req)
    \/ \E salt \in Salts : RegisterInsert(p, salt)

\* The life of the tokens: accounts sign up and log in while the clock runs
Next == SignUp \/ Login \/ Profile \/ Tick

Spec == Init /\ [][Next]_vars

\* The store once Ann and Bob have signed up at hour 0, one after the other
InitLog ==
    /\ users = <<[id |-> 1, username |-> Ann.username, email |-> Ann.email,
                  password_hash |-> hash_password(Ann.password, "s1"),
                  height |-> Ann.height, by |-> 1],
                 [id |-> 2, username |-> Bob.username, email |-> Bob.email,
                  password_hash |-> hash_password(Bob.password, "s2"),
                  height |-> Bob.height, by |-> 2]>>
    /\ food_items = SeedFoods
    /\ exercises = SeedExercises
    /\ meal_entries = <<>>
    /\ workout_entries = <<>>
    /\ goals = <<>>
    /\ now = 0
    /\ tz \in TZOffsets
    /\ reg = [p \in Tasks |->
                IF p = 1
                THEN [pc |-> "done", req |-> Ann, status |-> 200,
                      token |-> create_jwt_token(1, 0)]
                ELSE IF p = 2
                THEN [pc |-> "done", req |-> Bob, status |-> 200,
                      token |-> create_jwt_token(2, 0)]
                ELSE Idle]
    /\ issued = {[token |-> create_jwt_token(u, 0), user_id |-> u, at |-> 0] :
                    u \in {1, 2}}
    /\ dash = NoDashboard
    /\ resp = NoResponse

Foods == \E token \in Presentable, food \in NewFoods : CreateFoodItem(token, food)

Meals == \E token \in Presentable, id \in FoodIds, q \in Quantities :
    LogMeal(token, id, q)

Workouts ==
    /\ Len(workout_entries) < MaxWorkouts
    /\ \E token \in Presentable, id \in ExerciseIds, d \in Durations :
        LogWorkout(token, id, d)

Goals == \E token \in Presentable : CreateGoal(token)

\* The catalog and the logs of the two accounts while the clock runs; what the
\* reading handlers would answer is a function of the state reached
NextLog == Foods \/ Meals \/ Workouts \/ Goals \/ Tick

SpecLog == InitLog /\ [][NextLog]_vars

DayLogin == LoginUser(Ann.username, Ann.password)

\* The tokens handed out that verify now
Verified == {t \in IssuedTokens : verify_jwt_token(t, now).status = 200}

DayMeals == \E token \in Verified, q \in Quantities : LogMeal(token, 1, q)

DayWorkouts ==
    /\ Len(workout_entries) < MaxWorkouts
    /\ \E token \in Verified, d \in Durations :
        LogWorkout(token, 1, d)

MealLog == \E token \in Verified, date \in DateParams : GetMealLog(token, date)

Summary == \E token \in Verified, date \in DateParams :
    GetDailyNutritionSummary(token, date)

WorkoutLog == \E token \in Verified, date \in DateParams :
    GetWorkoutLog(token, date)

Dashboard == (\E token \in Verified : DashboardToday(token)) \/ DashboardStats

\* The clock runs up to the first midnight
DayTick == now < DAY_HOURS /\ Tick

\* The two accounts log entries and read their days back, with tokens that
\* verify, while the clock runs to midnight; Ann logs in again before her
\* token runs out
NextDay ==
    \/ DayLogin
    \/ DayMeals
    \/ DayWorkouts
    \/ MealLog
    \/ Summary
    \/ WorkoutLog
    \/ Dashboard
    \/ DayTick

SpecDay == InitLog /\ [][NextDay]_vars

\* The workouts Ann has logged within the first hour: one fewer than
\* to_list(1000) returns
Backlog == LIST_LIMIT - 1

BacklogEntry ==
    [user_id |-> 1, exercise_id |-> 1, duration |-> 30,
     calories_burned |-> calorie_burn(SeedExercises[1].calories_per_minute, 30),
     completed_at |-> 0]

\* The store once Ann and Bob have signed up and Ann has logged that many
\* workouts, all at hour 0
InitBulk ==
    /\ users = <<[id |-> 1, username |-> Ann.username, email |-> Ann.email,
                  password_hash |-> hash_password(Ann.password, "s1"),
                  height |-> Ann.height, by |-> 1],
                 [id |-> 2, username |-> Bob.username, email |-> Bob.email,
                  password_hash |-> hash_password(Bob.password, "s2"),
                  height |-> Bob.height, by |-> 2]>>
    /\ food_items = SeedFoods
    /\ exercises = SeedExercises
    /\ meal_entries = <<>>
    /\ workout_entries = [i \in 1..Backlog |-> BacklogEntry]
    /\ goals = <<>>
    /\ now = 0
    /\ tz \in TZOffsets
    /\ reg = [p \in Tasks |->
                IF p = 1
                THEN [pc |-> "done", req |-> Ann, status |-> 200,
                      token |-> create_jwt_token(1, 0)]
                ELSE IF p = 2
                THEN [pc |-> "done", req |-> Bob, status |-> 200,
                      token |-> create_jwt_token(2, 0)]
                ELSE Idle]
    /\ issued = {[token |-> create_jwt_token(u, 0), user_id |-> u, at |-> 0] :
                    u \in {1, 2}}
    /\ dash = NoDashboard
    /\ resp = NoResponse

BulkWorkouts ==
    /\ Len(workout_entries) < LIST_LIMIT + MaxWorkouts
    /\ \E token \in Verified, d \in Durations :
        LogWorkout(token, 1, d)

\* Workouts are logged on top of the backlog and read back
NextBulk == BulkWorkouts \/ WorkoutLog \/ Dashboard \/ DayTick

SpecBulk == InitBulk /\ [][NextBulk]_vars

\* The quantities (grams, a float) and durations (minutes, an int) a caller
\* can send: MealEntryCreate and WorkoutEntryCreate constrain neither
AnyQuantities == {-50, 0, 100, 150}
AnyDurations == {-10, 0, 30}

AnyFoods == \E token \in IssuedTokens, food \in NewFoods : CreateFoodItem(token, food)

AnyMeals == \E token \in IssuedTokens, id \in FoodIds, q \in AnyQuantities :
    LogMeal(token, id, q)

AnyWorkouts ==
    /\ Len(workout_entries) < MaxWorkouts
    /\ \E token \in IssuedTokens, id \in ExerciseIds, d \in AnyDurations :
        LogWorkout(token, id, d)

\* The two accounts log meals and workouts of every quantity and duration
\* while the catalog grows
NextEntries == AnyFoods \/ AnyMeals \/ AnyWorkouts

SpecEntries == InitLog /\ [][NextEntries]_vars

\* The profile values a caller can send (UserCreate: age int, weight and
\* height float, none of them constrained)
Ages == {0, 25, 40}
BodyWeights == {0, 60, 70}
BodyHeights == {-175, 0, 160, 175}

\* A derivation function applied to arguments, and what it gave
Applied(op, args, result) == [op |-> op, args |-> args, result |-> result]

\* bmi=calculate_bmi(user.weight, user.height)
ApplyBmi(weight, height) ==
    /\ resp' = Applied("calculate_bmi", <<weight, height>>,
                       calculate_bmi(weight, height))
    /\ UNCHANGED <<store, now, tz, reg, issued, dash>>

\* daily_calories=calculate_daily_calories(user)
ApplyDailyCalories(age, weight, height, level) ==
    /\ resp' = Applied("calculate_daily_calories", <<age, weight, height, level>>,
                       calculate_daily_calories(age, weight, height, level))
    /\ UNCHANGED <<store, now, tz, reg, issued, dash>>

Bmi == \E w \in BodyWeights, h \in BodyHeights : ApplyBmi(w, h)

DailyCalories ==
    \E a \in Ages, w \in BodyWeights, h \in BodyHeights,
       l \in ActivityLevels \cup {UnknownLevel} :
        ApplyDailyCalories(a, w, h, l)

\* The two profile derivations, applied to every profile of the sets above
NextDerive == Bmi \/ DailyCalories

SpecDerive == Init /\ [][NextDerive]_vars

-----------------------------------------------------------------------------
(* Claims *)

Accounts == 1..Len(users)

\* C1: after any interleaving of concurrent register requests no two
\* stored accounts share a username and no two share an email.
C1_UniqueAccounts ==
    \A i, j \in Accounts :
        i # j => /\ users[i].username # users[j].username
                 /\ users[i].email # users[j].email

\* The token is missing, expired or invalid at time t
BadToken(token, t) ==
    token = NoCredentials \/ verify_jwt_token(token, t).status # 200

\* A request to one of the endpoints that require a bearer token
AuthedRequest(token) ==
    \/ GetUserProfile(token)
    \/ \E food \in NewFoods : CreateFoodItem(token, food)
    \/ \E id \in FoodIds, q \in Quantities : LogMeal(token, id, q)
    \/ \E date \in DateParams : GetMealLog(token, date)
    \/ \E date \in DateParams : GetDailyNutritionSummary(token, date)
    \/ \E id \in ExerciseIds, d \in Durations : LogWorkout(token, id, d)
    \/ \E date \in DateParams : GetWorkoutLog(token, date)
    \/ CreateGoal(token)
    \/ GetUserGoals(token)
    \/ DashboardToday(token)

\* C2: a request to an endpoint other than register and login that carries
\* no token, an expired token or an invalid token is answered with 401 and
\* leaves every collection of the store unchanged.
C2_BadTokenUnauthorized ==
    [][\A token \in Presentable :
          (AuthedRequest(token) /\ BadToken(token, now))
              => (resp'.status = 401 /\ store' = store)]_vars

\* What an account gets from the five reading endpoints, for every value of
\* the date parameter
Results(a) ==
    [meal_log  |-> [d \in DateParams |-> find_meals(a, start_date(d, now))],
     summary   |-> [d \in DateParams |-> nutrition_summary(a, start_date(d, now))],
     workouts  |-> [d \in DateParams |-> find_workouts(a, start_date(d, now))],
     goals     |-> find_goals(a),
     dashboard |-> dashboard_stats(a, today_start(now), start_date(NoDate, now))]

RowsOf(sq) == {sq[i] : i \in 1..Len(sq)}

OnlyOwnRows(a) ==
    /\ \A d \in DateParams :
          LET start == start_date(d, now)
          IN  /\ \A e \in RowsOf(find_meals(a, start)) : e.user_id = a
              /\ \A e \in RowsOf(find_workouts(a, start)) : e.user_id = a
              /\ nutrition_summary(a, start).meal_count
                     = Cardinality({i \in 1..Len(meal_entries) :
                           /\ meal_entries[i].user_id = a
                           /\ in_window(meal_entries[i].logged_at, start)})
    /\ \A g \in RowsOf(find_goals(a)) : g.user_id = a

\* C3: what account A gets from GET /food/log, /food/log/summary,
\* /workouts/log, /goals and /dashboard/stats holds only rows owned by A, and
\* no request made as another account changes any of it.
C3_Isolation ==
    [][(store' # store \/ now' # now) =>
          \A a \in UserIds :
             /\ OnlyOwnRows(a)'
             /\ (now' = now /\ resp'.user_id # a) => Results(a)' = Results(a)]_vars

C3_Witness ==
    /\ \E i \in 1..Len(meal_entries) : meal_entries[i].user_id = 1
    /\ \E i \in 1..Len(meal_entries) : meal_entries[i].user_id = 2
    /\ resp.op = "log_meal" /\ resp.status = 200 /\ resp.user_id = 2
    /\ Results(1).summary[NoDate].meal_count = 1

\* The username or the email of the request is that of a stored account
Taken(req) ==
    \E i \in Accounts :
        users[i].username = req.username \/ users[i].email = req.email

\* C4: a register request whose username or email is that of a stored
\* account fails with 400, whatever its other fields, and adds no account.
C4_RegisterConflict ==
    [][\A p \in Tasks, req \in RegisterRequests :
          (RegisterFind(p, req) /\ Taken(req))
              => /\ reg'[p].pc = "done"
                 /\ reg'[p].status = 400
                 /\ users' = users]_vars

C4_Witness ==
    \E p \in Tasks, i \in Accounts :
        /\ reg[p].pc = "done" /\ reg[p].status = 400
        /\ users[i].email = reg[p].req.email
        /\ users[i].username # reg[p].req.username
        /\ users[i].height # reg[p].req.height

\* C5: a token made by create_jwt_token(id) at time t verifies to id at
\* every time before t + 24 h and fails as expired at every time after it,
\* whatever was done in between.
C5_TokenLifetime ==
    \A i \in issued :
        LET v == verify_jwt_token(i.token, now)
        IN  /\ now < i.at + 24 => (v.status = 200 /\ v.user_id = i.user_id)
            /\ now > i.at + 24 =>
                   (v.status = 401 /\ v.detail = "Token expired")

C5_Witness ==
    /\ \E i \in issued : now > i.at + 24
    /\ \E i \in issued : i.at < now /\ now < i.at + 24
    /\ Len(users) = 2

C7_MealCountedToday ==
    /\ \A i \in 1..Len(meal_entries) :
          in_window(meal_entries[i].logged_at,
                    today_start(meal_entries[i].logged_at))
    /\ \A a \in UserIds :
          LET mine == {i \in 1..Len(meal_entries) : meal_entries[i].user_id = a}
          IN  \A i \in mine :
                 (/\ mine = {i}
                  /\ meal_entries[i].quantity = 100
                  /\ food_items[find_food(meal_entries[i].food_item_id)]
                         .calories_per_100g = 1000
                  /\ today_start(now) = today_start(meal_entries[i].logged_at))
                 => LET sum == nutrition_summary(a, start_date(NoDate, now))
                    IN  sum.meal_count = 1 /\ sum.total_calories = 10000

\* C8: a register request either returns a token with the profile or
\* reports an error and has inserted no account.
C8_RegisterAllOrNothing ==
    \A p \in Tasks :
        (reg[p].pc = "done" /\ reg[p].status # 200)
            => ~\E i \in Accounts : users[i].by = p

\* C9: POST /food/log with a food item id that is not in the catalog, and
\* POST /workouts/log with an exercise id that is not in the catalog, fail
\* with 404 and insert no entry.
C9_UnknownIdNotFound ==
    LET foods == {food_items[i].id : i \in 1..Len(food_items)}
        exs   == {exercises[i].id : i \in 1..Len(exercises)}
    IN  /\ \A i \in 1..Len(meal_entries) : meal_entries[i].food_item_id \in foods
        /\ \A i \in 1..Len(workout_entries) : workout_entries[i].exercise_id \in exs
        /\ (resp.op = "log_meal" /\ resp.user_id # 0 /\ resp.request \notin foods)
              => resp.status = 404
        /\ (resp.op = "log_workout" /\ resp.user_id # 0 /\ resp.request \notin exs)
              => resp.status = 404

C9_Witness ==
    /\ resp.op = "log_meal" /\ resp.status = 404 /\ resp.user_id = 1
    /\ Len(food_items) = 2
    /\ Len(workout_entries) = 1

\* C10: POST /auth/login returns a token for the account exactly when the
\* username is that of a stored account and the password is the one it
\* registered with, fails with 401 otherwise, and leaves the store unchanged.
C10_LoginExactly ==
    [][\A u \in Usernames, pw \in Passwords :
          LoginUser(u, pw)
              => LET M == {i \in Accounts :
                              /\ users[i].username = u
                              /\ \E p \in Tasks :
                                    /\ users[i].by = p
                                    /\ reg[p].req.password = pw}
                 IN  /\ store' = store
                     /\ IF M # {}
                        THEN /\ resp'.status = 200
                             /\ \E i \in M : resp'.token.user_id = users[i].id
                        ELSE resp'.status = 401]_vars


\* The meal entries of account a logged in [start, start + 24 h), and the
\* workout entries of a completed in it
MealsIn(a, start) ==
    {i \in 1..Len(meal_entries) :
        /\ meal_entries[i].user_id = a
        /\ start <= meal_entries[i].logged_at
        /\ meal_entries[i].logged_at < start + 24}

WorkoutsIn(a, start) ==
    {i \in 1..Len(workout_entries) :
        /\ workout_entries[i].user_id = a
        /\ start <= workout_entries[i].completed_at
        /\ workout_entries[i].completed_at < start + 24}

\* The sum of a field over the entries at the indices S that lie in lo..hi
RECURSIVE TotalIn(_, _, _, _, _)
TotalIn(entries, S, name, lo, hi) ==
    IF lo > hi THEN 0
    ELSE IF lo = hi THEN (IF lo \in S THEN entries[lo][name] ELSE 0)
    ELSE LET mid == (lo + hi) \div 2
         IN  TotalIn(entries, S, name, lo, mid) + TotalIn(entries, S, name, mid + 1, hi)

Total(entries, S, name) == TotalIn(entries, S, name, 1, Len(entries))

\* C11: GET /food/log/summary returns, for every account and day window, the
\* sums of calories, protein, carbs and fat and the count over exactly the
\* account's meal entries logged in the window; with no such entry it
\* returns all totals 0 and meal_count 0, and never an error.
C11_SummaryIsSum ==
    [][resp'.op = "get_daily_nutrition_summary" =>
          \A token \in IssuedTokens, date \in DateParams :
             (~BadToken(token, now) /\ GetDailyNutritionSummary(token, date))
                 => LET S == MealsIn(token.user_id, start_date(date, now))
                    IN  /\ resp'.status = 200
                        /\ resp'.body =
                              [total_calories |-> Total(meal_entries, S, "calories"),
                               total_protein  |-> Total(meal_entries, S, "protein"),
                               total_carbs    |-> Total(meal_entries, S, "carbs"),
                               total_fat      |-> Total(meal_entries, S, "fat"),
                               meal_count     |-> Cardinality(S)]]_vars

C11_Witness ==
    /\ resp.op = "get_daily_nutrition_summary" /\ resp.status = 200
    /\ resp.body.meal_count = 2 /\ resp.body.total_calories = 33000
    /\ Len(meal_entries) = 2

\* C12: for every day window used by meal log retrieval, nutrition summary,
\* workout log retrieval and dashboard, an entry stamped exactly at the start
\* of the window is included and an entry stamped exactly 24 h after it is
\* excluded.
C12_HalfOpenWindow ==
    [][/\ resp'.op = "get_meal_log" =>
            \A token \in IssuedTokens, date \in DateParams :
               (~BadToken(token, now) /\ GetMealLog(token, date)) =>
                  \A i \in 1..Len(meal_entries) :
                     LET e == meal_entries[i]
                         s == start_date(date, now)
                     IN  e.user_id = token.user_id =>
                           /\ e.logged_at = s => e \in RowsOf(resp'.body)
                           /\ e.logged_at = s + 24 => e \notin RowsOf(resp'.body)
       /\ resp'.op = "get_workout_log" =>
            \A token \in IssuedTokens, date \in DateParams :
               (~BadToken(token, now) /\ GetWorkoutLog(token, date)) =>
                  \A i \in 1..Len(workout_entries) :
                     LET e == workout_entries[i]
                         s == start_date(date, now)
                     IN  e.user_id = token.user_id =>
                           /\ e.completed_at = s => e \in RowsOf(resp'.body)
                           /\ e.completed_at = s + 24 => e \notin RowsOf(resp'.body)
       /\ resp'.op = "get_daily_nutrition_summary" =>
            \A token \in IssuedTokens, date \in DateParams :
               (~BadToken(token, now) /\ GetDailyNutritionSummary(token, date)) =>
                  resp'.body.meal_count
                      = Cardinality(MealsIn(token.user_id, start_date(date, now)))
       /\ DashboardStats =>
            resp'.body.workouts.workout_count
                = Cardinality(WorkoutsIn(dash.user_id, dash.today))]_vars

C12_Witness ==
    /\ resp.op = "get_meal_log" /\ resp.status = 200
    /\ Len(meal_entries) = 2
    /\ meal_entries[1].user_id = resp.user_id /\ meal_entries[1].logged_at = 0
    /\ meal_entries[2].user_id = resp.user_id /\ meal_entries[2].logged_at = 24
    /\ resp.body = <<meal_entries[1]>>

\* C13: within every single dashboard request the nutrition aggregate and
\* the workout aggregate are computed over the same day window, also when
\* the wall clock crosses midnight while the request is being handled.
C13_DashboardOneWindow ==
    [][DashboardStats =>
          \E start \in {k * 24 : k \in -1..2} :
             LET M == MealsIn(dash.user_id, start)
                 W == WorkoutsIn(dash.user_id, start)
             IN  /\ resp'.body.nutrition.meal_count = Cardinality(M)
                 /\ resp'.body.nutrition.total_calories
                        = Total(meal_entries, M, "calories")
                 /\ resp'.body.workouts.workout_count = Cardinality(W)
                 /\ resp'.body.workouts.total_workout_time
                        = Total(workout_entries, W, "duration")]_vars

\* C14: when a date parameter is supplied to GET /food/log,
\* GET /food/log/summary or GET /workouts/log, the window starts at 00:00:00
\* of that calendar date and ends 24 h later, also for a value that carries
\* a time of day.
C14_DateWindowFromMidnight ==
    [][\A token \in IssuedTokens, date \in DateParams :
          (date.given /\ ~BadToken(token, now)) =>
             LET a == token.user_id
                 M == MealsIn(a, date.day * 24)
                 W == WorkoutsIn(a, date.day * 24)
             IN  /\ GetMealLog(token, date) =>
                       RowsOf(resp'.body) = {meal_entries[i] : i \in M}
                 /\ GetDailyNutritionSummary(token, date) =>
                       resp'.body.meal_count = Cardinality(M)
                 /\ GetWorkoutLog(token, date) =>
                       RowsOf(resp'.body) = {workout_entries[i] : i \in W}]_vars

\* C15: the dashboard's workout_count, total_workout_time and
\* total_calories_burned equal the count and the sums over all of the
\* account's workout entries completed in today's window, however many
\* entries there are.
C15_DashboardAllWorkouts ==
    [][DashboardStats =>
          LET W == WorkoutsIn(dash.user_id, dash.today)
              w == resp'.body.workouts
          IN  /\ w.workout_count = Cardinality(W)
              /\ w.total_workout_time = Total(workout_entries, W, "duration")
              /\ w.total_calories_burned
                     = Total(workout_entries, W, "calories_burned")]_vars

\* v hundredths is a value with 2 decimals nearest to n / d (d > 0)
Nearest(v, n, d) == 2 * (d * v - 100 * n) <= d /\ 2 * (100 * n - d * v) <= d

\* C16: in every reachable state each stored meal entry's calories, protein,
\* carbs and fat equal the densities of the food item it names times
\* quantity / 100, rounded to 2 decimals (165 kcal per 100 g at 150 g gives
\* 247.5), and each stored workout entry's calories burned equal the rate of
\* its exercise times the duration, rounded to 2 decimals.
C16_DerivedValues ==
    /\ \A i \in 1..Len(meal_entries) :
          LET e == meal_entries[i]
              F == {j \in 1..Len(food_items) : food_items[j].id = e.food_item_id}
          IN  /\ F # {}
              /\ \A j \in F :
                    LET f == food_items[j]
                    IN  /\ Nearest(e.calories, f.calories_per_100g * e.quantity, 1000)
                        /\ Nearest(e.protein, f.protein_per_100g * e.quantity, 1000)
                        /\ Nearest(e.carbs, f.carbs_per_100g * e.quantity, 1000)
                        /\ Nearest(e.fat, f.fat_per_100g * e.quantity, 1000)
                        /\ (f.calories_per_100g = 1650 /\ e.quantity = 150)
                               => e.calories = 24750
    /\ \A i \in 1..Len(workout_entries) :
          LET e == workout_entries[i]
              X == {j \in 1..Len(exercises) : exercises[j].id = e.exercise_id}
          IN  /\ X # {}
              /\ \A j \in X :
                    Nearest(e.calories_burned,
                            exercises[j].calories_per_minute * e.duration, 10)

C16_Witness ==
    /\ \E i \in 1..Len(meal_entries) :
          meal_entries[i].food_item_id = 1 /\ meal_entries[i].quantity = 150
    /\ \E i \in 1..Len(workout_entries) : workout_entries[i].duration = 30
    /\ resp.op = "create_food_item" /\ resp.status = 200

\* C17: in every reachable state every stored meal entry has quantity > 0
\* and every stored workout entry has duration > 0.
C17_PositiveAmounts ==
    /\ \A i \in 1..Len(meal_entries) : meal_entries[i].quantity > 0
    /\ \A i \in 1..Len(workout_entries) : workout_entries[i].duration > 0

\* C18: bmi reports an error instead of a number for height = 0 and for
\* every negative height, and for height > 0 returns
\* weight / (height / 100)^2 rounded to 2 decimals (bmi(70, 175) = 22.86).
C18_BmiRejectsNonPositive ==
    resp.op = "calculate_bmi" =>
        LET weight == resp.args[1]
            height == resp.args[2]
            bmi    == resp.result
        IN  /\ height <= 0 => ~bmi.ok
            /\ height > 0 =>
                  /\ bmi.ok
                  \* bmi.value / 100 is a hundredth nearest to the quotient
                  /\ 2 * (bmi.value * height * height - 1000000 * weight)
                         <= height * height
                  /\ 2 * (1000000 * weight - bmi.value * height * height)
                         <= height * height
            /\ (weight = 70 /\ height = 175) => bmi.value = 2286

\* The multipliers the specification lists, in thousandths
C19_Multiplier(level) ==
    IF level = "lightly_active" THEN 1375
    ELSE IF level = "moderately_active" THEN 1550
    ELSE IF level = "very_active" THEN 1725
    ELSE IF level = "extremely_active" THEN 1900
    ELSE 1200

\* r is (10 * weight + 6.25 * height - 5 * age + 5) times the multiplier,
\* cut toward zero; or 2000 when age, weight or height is zero
C19_Formula(age, weight, height, level, r) ==
    IF age = 0 \/ weight = 0 \/ height = 0
    THEN r = 2000
    ELSE LET x == (1000 * weight + 625 * height - 500 * age + 500)
                      * C19_Multiplier(level)
         IN  IF x >= 0
             THEN 100000 * r <= x /\ x < 100000 * (r + 1)
             ELSE 100000 * (r - 1) < x /\ x <= 100000 * r

C19_Example == <<25, 70, 175, "moderately_active">>

\* C19 as stated: dailyCalories is 2000 whenever age, weight or height is
\* zero, and otherwise the formula times the activity multiplier truncated
\* to an integer; for age 25, weight 70, height 175, moderately_active the
\* result is 2607.
C19_DailyCaloriesAsStated ==
    resp.op = "calculate_daily_calories" =>
        /\ C19_Formula(resp.args[1], resp.args[2], resp.args[3], resp.args[4],
                       resp.result)
        /\ resp.args = C19_Example => resp.result = 2607

\* C19, amended: the same formula, whose value for age 25, weight 70,
\* height 175, moderately_active is int(1673.75 * 1.55) = 2594.
C19_DailyCalories ==
    resp.op = "calculate_daily_calories" =>
        /\ C19_Formula(resp.args[1], resp.args[2], resp.args[3], resp.args[4],
                       resp.result)
        /\ resp.args = C19_Example => resp.result = 2594

C19_Witness ==
    /\ resp.op = "calculate_daily_calories"
    /\ resp.args = C19_Example
    /\ resp.result # 2000

=============================================================================
